---- MODULE Spec2Model ----
(***************************************************************************)
(* The Ising lattice of internal/src/lib.rs (struct Lattice and its        *)
(* methods) as a state machine.                                            *)
(*                                                                         *)
(* f64 values are modelled as IEEE-754 values with their special cases     *)
(* kept: signed zeros, signed infinities and NaN.  A finite non-zero       *)
(* value is the exact number s * (n / d) * 10^e, kept in lowest terms, so  *)
(* that products, quotients and the difference of the step are computed    *)
(* exactly.  Rounding, overflow to infinity and subnormal values are not   *)
(* modelled: the inputs below are of moderate magnitude.                   *)
(***************************************************************************)
EXTENDS Integers, Sequences, FiniteSets, TLC

\* The largest lattice side that Lattice::new and set_size are given.
MaxSize == 3

\* The largest lattice side on which reset_value is called.
MaxResetSize == 2

\* The GUI's Lattice Size range 5..=25 and default side 15 on the scale of
\* MaxSize: the least side of the range, and the default side (the greatest
\* side of the range is MaxSize).
DragRangeMin == 1

GuiDefaultSize == 2

\* The side of the TUI's lattice, for its 25.
TuiSize == 1

\* The most '+' or '-' key presses that move the increment away from 1000.
MaxIncrementKeys == 1

\* The most 'd' key presses that move the delay above its initial 10 ms.
MaxDelayKeys == 2

\* 'T' is pressed while the temperature is above -10 * MaxBelowZero.
MaxBelowZero == 1

(***************************************************************************)
(* f64                                                                     *)
(***************************************************************************)
RECURSIVE Gcd(_, _)
Gcd(a, b) == IF b = 0 THEN a ELSE Gcd(b, a % b)

RECURSIVE Pow10(_)
Pow10(k) == IF k <= 0 THEN 1 ELSE 10 * Pow10(k - 1)

\* The number of trailing decimal zeros of m > 0.
RECURSIVE Zeros(_)
Zeros(m) == IF m % 10 = 0 THEN 1 + Zeros(m \div 10) ELSE 0

\* The number of decimal digits of m > 0.
RECURSIVE Digits(_)
Digits(m) == IF m < 10 THEN 1 ELSE 1 + Digits(m \div 10)

NaN == [k |-> "nan", s |-> 1, n |-> 0, d |-> 1, e |-> 0]

Inf(s) == [k |-> "inf", s |-> s, n |-> 0, d |-> 1, e |-> 0]

Zero(s) == [k |-> "fin", s |-> s, n |-> 0, d |-> 1, e |-> 0]

\* The finite value s * (n / d) * 10^e in lowest terms (n >= 0, d > 0).
Fin(s, n, d, e) ==
    IF n = 0 THEN Zero(s)
    ELSE LET g  == Gcd(n, d)
             n1 == n \div g
             d1 == d \div g
             zn == Zeros(n1)
             zd == Zeros(d1)
         IN [k |-> "fin", s |-> s, n |-> n1 \div Pow10(zn),
             d |-> d1 \div Pow10(zd), e |-> e + zn - zd]

IsZero(a) == a.k = "fin" /\ a.n = 0

\* f64::from(i32)
FromInt(i) == IF i < 0 THEN Fin(-1, -i, 1, 0) ELSE Fin(1, i, 1, 0)

\* unary minus: the sign bit is flipped, of zeros and infinities too
FNeg(a) == IF a.k = "nan" THEN NaN ELSE [a EXCEPT !.s = -a.s]

\* a * b
FMul(a, b) ==
    IF a.k = "nan" \/ b.k = "nan" THEN NaN
    ELSE IF a.k = "inf" \/ b.k = "inf"
         THEN IF IsZero(a) \/ IsZero(b) THEN NaN ELSE Inf(a.s * b.s)
         ELSE Fin(a.s * b.s, a.n * b.n, a.d * b.d, a.e + b.e)

\* a / b
FDiv(a, b) ==
    IF a.k = "nan" \/ b.k = "nan" THEN NaN
    ELSE IF a.k = "inf"
         THEN IF b.k = "inf" THEN NaN ELSE Inf(a.s * b.s)
         ELSE IF b.k = "inf" THEN Zero(a.s * b.s)
         ELSE IF IsZero(b)
              THEN IF IsZero(a) THEN NaN ELSE Inf(a.s * b.s)
              ELSE Fin(a.s * b.s, a.n * b.d, a.d * b.n, a.e - b.e)

\* a + b (round to nearest: an exact zero sum is +0 unless both are -0)
FAdd(a, b) ==
    IF a.k = "nan" \/ b.k = "nan" THEN NaN
    ELSE IF a.k = "inf"
         THEN IF b.k = "inf" /\ b.s # a.s THEN NaN ELSE a
         ELSE IF b.k = "inf" THEN b
         ELSE IF IsZero(a) /\ IsZero(b)
              THEN Zero(IF a.s = -1 /\ b.s = -1 THEN -1 ELSE 1)
              ELSE IF IsZero(a) THEN b
              ELSE IF IsZero(b) THEN a
              ELSE LET e   == IF a.e < b.e THEN a.e ELSE b.e
                       sam == a.d = b.d
                       an  == a.s * a.n * Pow10(a.e - e) * (IF sam THEN 1 ELSE b.d)
                       bn  == b.s * b.n * Pow10(b.e - e) * (IF sam THEN 1 ELSE a.d)
                       den == IF sam THEN a.d ELSE a.d * b.d
                       num == an + bn
                   IN IF num < 0 THEN Fin(-1, -num, den, e) ELSE Fin(1, num, den, e)

\* a - b
FSub(a, b) == FAdd(a, FNeg(b))

\* a < 0.0 (false of NaN and of both zeros)
FLtZero(a) == a.k # "nan" /\ a.s = -1 /\ ~IsZero(a)

\* a == b as f64 compares: NaN equals nothing, -0.0 equals +0.0
FEq(a, b) ==
    /\ a.k # "nan"
    /\ b.k # "nan"
    /\ \/ IsZero(a) /\ IsZero(b)
       \/ a = b

\* floor(log10(|a|)) of a finite non-zero a
Order(a) ==
    LET k == Digits(a.n) - Digits(a.d)
        ge == IF k >= 0 THEN a.n >= a.d * Pow10(k) ELSE a.n * Pow10(-k) >= a.d
    IN a.e + (IF ge THEN k ELSE k - 1)

\* |a| < ln 2 = 0.693... for a finite non-zero a, decided to three digits
BelowLn2(a) ==
    LET o == Order(a)
        q == a.e + 1
    IN IF o >= 0 THEN FALSE
       ELSE IF o <= -2 THEN TRUE
       ELSE IF q >= 0 THEN a.n * Pow10(q) * 100 < 693 * a.d
            ELSE a.n * 100 < 693 * a.d * Pow10(-q)

\* f64::consts::E.powf(x), as far as a comparison with 0.5 can tell:
\* e^x is increasing, so e^x > 0.5 exactly when x > -ln 2.
EPowf(x) ==
    IF x.k = "nan" THEN "nan"
    ELSE IF x.k = "inf" THEN (IF x.s = 1 THEN "inf" ELSE "zero")
    ELSE IF IsZero(x) \/ x.s = 1 THEN "gt_half"
    ELSE IF BelowLn2(x) THEN "gt_half" ELSE "le_half"

\* p > 0.5
GtHalf(p) == p \in {"inf", "gt_half"}

\* const KB: f64 = 1.380649e-23
KB == Fin(1, 1380649, 1, -29)

(***************************************************************************)
(* Inputs                                                                  *)
(***************************************************************************)
\* The interactivity values given to Lattice::new: -100, 2e-22, 100.
Interactivities == {Fin(-1, 100, 1, 0), Fin(1, 2, 1, -22), Fin(1, 100, 1, 0)}

\* The temperature values given to Lattice::new: -100, -0.0, +0.0, 100.
Temperatures == {Fin(-1, 100, 1, 0), Zero(-1), Zero(1), Fin(1, 100, 1, 0)}

(***************************************************************************)
(* State                                                                   *)
(***************************************************************************)
VARIABLES
    lattice,  \* the Lattice a driver owns: value, size, interactivity, temperature
    op,       \* the last call: its name, its arguments and its locals
    panic,    \* TRUE once a call has panicked
    env,      \* the environment variables of the web server's process
    config,   \* the Config the web server's last call returned
    is_paused, \* the GUI's App::is_paused
    increment, \* the TUI's App::increment
    delay      \* the TUI's App::delay, in milliseconds

vars == <<lattice, op, panic, env, config, is_paused, increment, delay>>

NoOp == [name |-> "none", x |-> 0, y |-> 0, h |-> NaN, delta_h |-> NaN,
         p |-> "nan", is_flipped |-> FALSE, len |-> 0]

\* The names of the environment variables Config reads
EnvNames == {"SVC_ENDPOINT", "SVC_PORT", "LOG_LEVEL", "ENVIRONMENT"}

\* env::var(name) is Err
Unset == "<unset>"

\* An environment in which none of the variables is set
NoEnv == [n \in EnvNames |-> Unset]

\* No Config has been built yet
NoConfig == [svc_endpoint |-> "", svc_port |-> "", log_level |-> "",
             environment |-> ""]

(***************************************************************************)
(* Spins and Lattice::new                                                  *)
(***************************************************************************)
\* AlterSpin without the alteration of 0 to -1.
AlterSpin_Unaltered(s) == s

\* .map(|s| if s == 0 { -1 } else { 1 })
AlterSpin(s) == IF s = 0 THEN -1 ELSE 1

\* Spins::new(size): every vector that size draws of random_range(0..=1) give
SpinsNew(n) == {[i \in 1..n |-> AlterSpin(b[i])] : b \in [1..n -> {0, 1}]}

\* Lattice::new(size, interactivity, temperature): every lattice it can return
LatticeNew(n, j, t) ==
    {[value |-> v, size |-> n, interactivity |-> j, temperature |-> t] :
        v \in [1..n -> SpinsNew(n)]}

Init ==
    /\ \E n \in 0..MaxSize, j \in Interactivities, t \in Temperatures :
          lattice \in LatticeNew(n, j, t)
    /\ op = [NoOp EXCEPT !.name = "new"]
    /\ panic = FALSE
    /\ env = NoEnv
    /\ config = NoConfig
    /\ is_paused = TRUE
    /\ increment = Zero(1)
    /\ delay = 0

(***************************************************************************)
(* set_size, update_lattice, reset_value                                   *)
(***************************************************************************)
\* SetSize without the test size > 0.
SetSize_Unguarded(c) ==
    /\ ~panic
    /\ lattice' = [lattice EXCEPT !.size = c]
    /\ op' = [NoOp EXCEPT !.name = "set_size", !.x = c,
                          !.len = Len(lattice.value)]
    /\ panic' = FALSE
    /\ UNCHANGED <<env, config, is_paused, increment, delay>>

\* Lattice::set_size(size)
SetSize(c) ==
    /\ ~panic
    /\ lattice' = IF c > 0 THEN [lattice EXCEPT !.size = c] ELSE lattice
    /\ op' = [NoOp EXCEPT !.name = "set_size", !.x = c,
                          !.len = Len(lattice.value)]
    /\ panic' = FALSE
    /\ UNCHANGED <<env, config, is_paused, increment, delay>>

\* Grown with the new spins put in front of each existing row.
Grown_Prepended(v, n) ==
    LET len  == Len(v)
        diff == n - len
    IN {[i \in 1..len |-> ext[i] \o v[i]] \o rows :
           ext \in [1..len -> SpinsNew(diff)], rows \in [1..diff -> SpinsNew(n)]}

\* Grown with a single new row pushed, whatever the difference.
Grown_OneRow(v, n) ==
    LET len  == Len(v)
        diff == n - len
    IN {[i \in 1..len |-> v[i] \o ext[i]] \o rows :
           ext \in [1..len -> SpinsNew(diff)], rows \in [1..1 -> SpinsNew(n)]}

\* Grown with every cell drawn afresh, the existing ones included.
Grown_Rerandomized(v, n) == [1..n -> SpinsNew(n)]

\* The rows of update_lattice's growth: every existing row gains diff new
\* spins, then diff new rows of self.size spins are pushed.
Grown(v, n) ==
    LET len  == Len(v)
        diff == n - len
    IN {[i \in 1..len |-> v[i] \o ext[i]] \o rows :
           ext \in [1..len -> SpinsNew(diff)], rows \in [1..diff -> SpinsNew(n)]}

\* Shrunk with the entries and the rows removed from the front.
Shrunk_FromFront(v, n) ==
    LET len  == Len(v)
        diff == len - n
        cut  == [i \in 1..len |-> SubSeq(v[i], diff + 1, Len(v[i]))]
    IN SubSeq(cut, diff + 1, len)

\* Shrunk without the pops from the rows: only the last rows are removed.
Shrunk_RowsOnly(v, n) == SubSeq(v, 1, n)

\* The rows of update_lattice's shrink: diff pops from every row, then diff
\* rows popped.
Shrunk(v, n) ==
    LET len  == Len(v)
        diff == len - n
        cut  == [i \in 1..len |-> SubSeq(v[i], 1, Len(v[i]) - diff)]
    IN SubSeq(cut, 1, len - diff)

\* spins.value.pop().unwrap() panics on an empty row
ShrinkPanics(v, n) == \E i \in 1..Len(v) : Len(v[i]) < Len(v) - n

\* Lattice::update_lattice()
UpdateLattice ==
    /\ ~panic
    /\ UNCHANGED <<env, config, is_paused, increment, delay>>
    /\ LET len == Len(lattice.value)
       IN /\ op' = [NoOp EXCEPT !.name = "update_lattice", !.len = len]
          /\ IF lattice.size = len
             THEN /\ lattice' = lattice
                                /\ panic' = FALSE
             ELSE IF lattice.size > len
             THEN /\ \E v \in Grown(lattice.value, lattice.size) :
                        lattice' = [lattice EXCEPT !.value = v]
                                /\ panic' = FALSE
             ELSE IF ShrinkPanics(lattice.value, lattice.size)
             THEN /\ panic' = TRUE
                  /\ UNCHANGED lattice
             ELSE /\ lattice' = [lattice EXCEPT
                                   !.value = Shrunk(lattice.value, lattice.size)]
                                /\ panic' = FALSE

\* ResetValueReturn with interactivity and temperature exchanged.
ResetValueReturn_Swapped(l) == LatticeNew(l.size, l.temperature, l.interactivity)

\* What reset_value() can return:
\* Lattice::new(self.size, self.interactivity, self.temperature)
ResetValueReturn(l) == LatticeNew(l.size, l.interactivity, l.temperature)

\* Lattice::reset_value(&self): the receiver is only read; the lattice it
\* returns is kept in op.ret.
ResetValue ==
    /\ ~panic
    /\ lattice.size <= MaxResetSize
    /\ \E r \in ResetValueReturn(lattice) :
          op' = [name |-> "reset_value", ret |-> r, len |-> Len(lattice.value)]
    /\ UNCHANGED lattice
    /\ panic' = FALSE
    /\ UNCHANGED <<env, config, is_paused, increment, delay>>

\* The Reset button: self.lattice = self.lattice.reset_value()
ResetButton ==
    /\ ~panic
    /\ lattice.size <= MaxResetSize
    /\ lattice' \in LatticeNew(lattice.size, lattice.interactivity,
                               lattice.temperature)
    /\ op' = [NoOp EXCEPT !.name = "reset_button", !.len = Len(lattice.value)]
    /\ panic' = FALSE
    /\ UNCHANGED <<env, config, is_paused, increment, delay>>

(***************************************************************************)
(* pick_random_point, find_neighbours, calculate_hamiltonian               *)
(***************************************************************************)
\* pick_random_point(): (random_range(0..size), random_range(0..size)),
\* which the drivers bind to (x_rand, y_rand)
PickRandomPoint(l) == (0..(l.size - 1)) \X (0..(l.size - 1))

\* self.value[y].value[x] is an existing element
InBounds(l, x, y) ==
    /\ y >= 0
    /\ y < Len(l.value)
    /\ x >= 0
    /\ x < Len(l.value[y + 1])

\* Cell with x taken as the row and y as the column.
Cell_Transposed(l, x, y) == l.value[x + 1][y + 1]

\* self.value[y].value[x]
Cell(l, x, y) == l.value[y + 1][x + 1]

\* FindNeighbours with periodic wraparound at the lattice boundary.
FindNeighbours_Periodic(l, x, y) ==
    << Cell(l, (x - 1) % l.size, y), Cell(l, (x + 1) % l.size, y),
       Cell(l, x, (y - 1) % l.size), Cell(l, x, (y + 1) % l.size) >>

\* (left, right, down, up) of find_neighbours(x_rand, y_rand)
FindNeighbours(l, x, y) ==
    LET current_spin      == Cell(l, x, y)
        is_not_most_left  == x # 0
        is_not_most_right == x # l.size - 1
        is_not_bottom     == y # 0
        is_not_top        == y # l.size - 1
    IN << IF is_not_most_left THEN Cell(l, x - 1, y) ELSE current_spin,
          IF is_not_most_right THEN Cell(l, x + 1, y) ELSE current_spin,
          IF is_not_bottom THEN Cell(l, x, y - 1) ELSE current_spin,
          IF is_not_top THEN Cell(l, x, y + 1) ELSE current_spin >>

\* One of the index expressions of calculate_hamiltonian and find_neighbours
\* is out of bounds: the call panics.
IndexPanics(l, x, y) ==
    \/ ~InBounds(l, x, y)
    \/ x # 0 /\ ~InBounds(l, x - 1, y)
    \/ x # l.size - 1 /\ ~InBounds(l, x + 1, y)
    \/ y # 0 /\ ~InBounds(l, x, y - 1)
    \/ y # l.size - 1 /\ ~InBounds(l, x, y + 1)

\* calculate_hamiltonian(x_rand, y_rand):
\* -self.interactivity * current_spin * f64::from(left + right + down + up)
CalculateHamiltonian(l, x, y) ==
    LET current_spin == FromInt(Cell(l, x, y))
        nb           == FindNeighbours(l, x, y)
    IN FMul(FMul(FNeg(l.interactivity), current_spin),
            FromInt(nb[1] + nb[2] + nb[3] + nb[4]))

(***************************************************************************)
(* metropolis_algo_calculation                                             *)
(***************************************************************************)
\* flipped_hamiltonian_energy - current_hamiltonian_energy
DeltaH(current) == FSub(FNeg(current), current)

\* MinusBeta without its minus sign.
MinusBeta_Positive(t) == FDiv(FromInt(1), FMul(KB, t))

\* -1.0 / (KB * self.temperature)
MinusBeta(t) == FDiv(FromInt(-1), FMul(KB, t))

\* f64::consts::E.powf(minus_beta * delta_h)
AcceptenceCriteria(minus_beta, delta_h) == EPowf(FMul(minus_beta, delta_h))

\* IsFlipped without the acceptance criteria: only a lower energy flips.
IsFlipped_OnlyDownhill(delta_h, acceptence_criteria) == FLtZero(delta_h)

\* IsFlipped with "and" for "or".
IsFlipped_Both(delta_h, acceptence_criteria) ==
    FLtZero(delta_h) /\ GtHalf(acceptence_criteria)

\* delta_h < 0.0 || acceptence_criteria > 0.5
IsFlipped(delta_h, acceptence_criteria) ==
    FLtZero(delta_h) \/ GtHalf(acceptence_criteria)

\* Flip with the row and column indices exchanged.
Flip_Transposed(v, x, y) == [v EXCEPT ![x + 1][y + 1] = -@]

\* self.value[y].value[x] = -self.value[y].value[x]
Flip(v, x, y) == [v EXCEPT ![y + 1][x + 1] = -@]

\* metropolis_algo_calculation(x_rand, y_rand).  Each local of the function is
\* bound once, as a let binds it (\E over a one-element set).
MetropolisAlgoCalculation(x, y) ==
    IF IndexPanics(lattice, x, y)
    THEN /\ panic' = TRUE
         /\ op' = [NoOp EXCEPT !.name = "metropolis", !.x = x, !.y = y,
                               !.len = Len(lattice.value)]
         /\ UNCHANGED lattice
    ELSE \E current_hamiltonian_energy \in {CalculateHamiltonian(lattice, x, y)} :
         \E delta_h \in {DeltaH(current_hamiltonian_energy)} :
         \E minus_beta \in {MinusBeta(lattice.temperature)} :
         \E acceptence_criteria \in {AcceptenceCriteria(minus_beta, delta_h)} :
         \E is_flipped \in {IsFlipped(delta_h, acceptence_criteria)} :
            /\ lattice' = IF is_flipped
                          THEN [lattice EXCEPT !.value = Flip(lattice.value, x, y)]
                          ELSE lattice
            /\ op' = [name |-> "metropolis", x |-> x, y |-> y,
                      h |-> current_hamiltonian_energy, delta_h |-> delta_h,
                      p |-> acceptence_criteria, is_flipped |-> is_flipped,
                      len |-> Len(lattice.value)]
            /\ panic' = FALSE

\* Tick returning early on an empty lattice.
Tick_SkipsEmpty ==
    /\ ~panic
    /\ UNCHANGED <<env, config, is_paused, increment, delay>>
    /\ IF lattice.size = 0
       THEN /\ panic' = FALSE
            /\ op' = [NoOp EXCEPT !.name = "pick_random_point"]
            /\ UNCHANGED lattice
       ELSE \E pt \in PickRandomPoint(lattice) :
               MetropolisAlgoCalculation(pt[1], pt[2])

\* A driver's step (on_tick): pick_random_point, then
\* metropolis_algo_calculation on the point.  random_range panics on the
\* empty range 0..0.
Tick ==
    /\ ~panic
    /\ UNCHANGED <<env, config, is_paused, increment, delay>>
    /\ IF lattice.size = 0
       THEN /\ panic' = TRUE
            /\ op' = [NoOp EXCEPT !.name = "pick_random_point"]
            /\ UNCHANGED lattice
       ELSE \E pt \in PickRandomPoint(lattice) :
               MetropolisAlgoCalculation(pt[1], pt[2])

Next ==
    \/ \E c \in 0..MaxSize : SetSize(c)
    \/ UpdateLattice
    \/ ResetButton
    \/ Tick

Spec == Init /\ [][Next]_vars

(***************************************************************************)
(* The calls of the library that shape a lattice, on lattices of side at   *)
(* most MaxResetSize, with reset_value called for its return value.        *)
(***************************************************************************)
InitReset ==
    /\ \E n \in 0..MaxResetSize, j \in Interactivities, t \in Temperatures :
          lattice \in LatticeNew(n, j, t)
    /\ op = [NoOp EXCEPT !.name = "new"]
    /\ panic = FALSE
    /\ env = NoEnv
    /\ config = NoConfig
    /\ is_paused = TRUE
    /\ increment = Zero(1)
    /\ delay = 0

NextReset ==
    \/ \E c \in 0..MaxResetSize : SetSize(c)
    \/ UpdateLattice
    \/ ResetValue

SpecReset == InitReset /\ [][NextReset]_vars

(***************************************************************************)
(* The GUI: App::default and App::update                                   *)
(***************************************************************************)
\* The values the Temperature slider (0.0..=10_000.0) is moved to
GuiTemperatures == {Zero(1), Fin(1, 100, 1, 0)}

\* The values the Interactivity slider (-10_000.0..=10_000.0) is moved to
GuiInteractivities == Interactivities

\* update_lattice() on l: every lattice it can leave, and whether it panics
Updated(l) ==
    LET len == Len(l.value)
    IN IF l.size = len
       THEN {[lattice |-> l, panic |-> FALSE]}
       ELSE IF l.size > len
       THEN {[lattice |-> [l EXCEPT !.value = v], panic |-> FALSE] :
                v \in Grown(l.value, l.size)}
       ELSE IF ShrinkPanics(l.value, l.size)
       THEN {[lattice |-> l, panic |-> TRUE]}
       ELSE {[lattice |-> [l EXCEPT !.value = Shrunk(l.value, l.size)],
              panic |-> FALSE]}

\* metropolis_algo_calculation(x, y) on l, when no index panics: the lattice
\* it leaves
Metropolis(l, x, y) ==
    LET current_hamiltonian_energy == CalculateHamiltonian(l, x, y)
        delta_h             == DeltaH(current_hamiltonian_energy)
        minus_beta          == MinusBeta(l.temperature)
        acceptence_criteria == AcceptenceCriteria(minus_beta, delta_h)
    IN IF IsFlipped(delta_h, acceptence_criteria)
       THEN [l EXCEPT !.value = Flip(l.value, x, y)]
       ELSE l

\* pick_random_point() and metropolis_algo_calculation() on l: every outcome
Step(l) ==
    IF l.size = 0
    THEN {[lattice |-> l, panic |-> TRUE, stepped |-> TRUE]}
    ELSE {IF IndexPanics(l, pt[1], pt[2])
          THEN [lattice |-> l, panic |-> TRUE, stepped |-> TRUE]
          ELSE [lattice |-> Metropolis(l, pt[1], pt[2]), panic |-> FALSE,
                stepped |-> TRUE] : pt \in PickRandomPoint(l)}

\* StepIfResumed with the step taken whether paused or not.
StepIfResumed_Always(l, paused) == Step(l)

\* if !self.is_paused { pick_random_point; metropolis_algo_calculation }
StepIfResumed(l, paused) ==
    IF paused
    THEN {[lattice |-> l, panic |-> FALSE, stepped |-> FALSE]}
    ELSE Step(l)

\* The side panel of one frame, in which the pointer or the keyboard acts on
\* at most one widget: the Reset button, the Lattice Size DragValue (whose
\* values are edits) followed by update_lattice(), or one of the two sliders.
SidePanel(l, input, edits) ==
    CASE input = "reset" ->
           IF l.size <= MaxResetSize
           THEN {[lattice |-> r, panic |-> FALSE] : r \in ResetValueReturn(l)}
           ELSE {}
      [] input = "size" ->
           UNION {Updated([l EXCEPT !.size = n]) : n \in edits \ {l.size}}
      [] input = "temperature" ->
           {[lattice |-> [l EXCEPT !.temperature = t], panic |-> FALSE] :
               t \in GuiTemperatures \ {l.temperature}}
      [] input = "interactivity" ->
           {[lattice |-> [l EXCEPT !.interactivity = j], panic |-> FALSE] :
               j \in GuiInteractivities \ {l.interactivity}}
      [] OTHER -> {[lattice |-> l, panic |-> FALSE]}

\* One frame of App::update: the Resume/Pause button, the rest of the side
\* panel, then the step when the app is not paused.
GuiUpdate(edits) ==
    /\ ~panic
    /\ \E input \in {"none", "pause_resume", "reset", "size", "temperature",
                     "interactivity"} :
       \E paused \in {IF input = "pause_resume" THEN ~is_paused ELSE is_paused} :
       \E a \in SidePanel(lattice, input, edits) :
       \E s \in (IF a.panic
                 THEN {[lattice |-> a.lattice, panic |-> TRUE, stepped |-> FALSE]}
                 ELSE StepIfResumed(a.lattice, paused)) :
          /\ lattice' = s.lattice
          /\ panic' = s.panic
          /\ is_paused' = paused
          /\ op' = [name |-> "update", input |-> input, stepped |-> s.stepped]
    /\ UNCHANGED <<env, config, increment, delay>>

\* App::update of gui/src/app.rs: DragValue::new(..).range(5.0..=25.0)
AppUpdate == GuiUpdate(DragRangeMin..MaxSize)

\* App::default(): Lattice::new(15, 100.0, 100.0), is_paused: true
InitGui ==
    /\ lattice \in LatticeNew(GuiDefaultSize, Fin(1, 100, 1, 0), Fin(1, 100, 1, 0))
    /\ is_paused = TRUE
    /\ op = [name |-> "default", input |-> "none", stepped |-> FALSE]
    /\ panic = FALSE
    /\ env = NoEnv
    /\ config = NoConfig
    /\ increment = Zero(1)
    /\ delay = 0

NextGui == AppUpdate

SpecGui == InitGui /\ [][NextGui]_vars

\* App::update of gui/src/main.rs: DragValue::new(&mut self.lattice.size),
\* without a range, so that the usize can be edited down to 0
MainUpdate == GuiUpdate(0..MaxSize)

NextGuiMain == MainUpdate

\* The front end of gui/src/main.rs; its App::default is that of app.rs
SpecGuiMain == InitGui /\ [][NextGuiMain]_vars

(***************************************************************************)
(* The TUI: App::run and the handlers of its keys                          *)
(***************************************************************************)
\* let init_temperature = 10_000.0
InitTemperature == FromInt(10000)

\* a < b, of finite a and b
Below(a, b) == FLtZero(FSub(a, b))

\* What a key handler leaves alone
TuiFrame == UNCHANGED <<panic, env, config, is_paused>>

\* App::run up to its loop
InitTui ==
    /\ lattice \in LatticeNew(TuiSize, FromInt(10000), InitTemperature)
    /\ increment = FromInt(1000)
    /\ delay = 10
    /\ op = [NoOp EXCEPT !.name = "run"]
    /\ panic = FALSE
    /\ env = NoEnv
    /\ config = NoConfig
    /\ is_paused = TRUE

\* '+': increase_increment()
IncreaseIncrement ==
    /\ ~panic
    /\ Below(increment, FromInt(1000 + 10 * MaxIncrementKeys))
    /\ increment' = FAdd(increment, FromInt(10))
    /\ op' = [NoOp EXCEPT !.name = "increase_increment"]
    /\ UNCHANGED <<lattice, delay>>
    /\ TuiFrame

\* '-': decrease_increment()
DecreaseIncrement ==
    /\ ~panic
    /\ Below(FromInt(1000 - 10 * MaxIncrementKeys), increment)
    /\ increment' = FSub(increment, FromInt(10))
    /\ op' = [NoOp EXCEPT !.name = "decrease_increment"]
    /\ UNCHANGED <<lattice, delay>>
    /\ TuiFrame

\* 't': increase_temperature()
IncreaseTemperature ==
    /\ ~panic
    /\ Below(lattice.temperature, InitTemperature)
    /\ lattice' = [lattice EXCEPT !.temperature = FAdd(@, increment)]
    /\ op' = [NoOp EXCEPT !.name = "increase_temperature"]
    /\ UNCHANGED <<increment, delay>>
    /\ TuiFrame

\* 'T': decrease_temperature()
DecreaseTemperature ==
    /\ ~panic
    /\ Below(FromInt(-10 * MaxBelowZero), lattice.temperature)
    /\ lattice' = [lattice EXCEPT !.temperature =
                      IF FEq(@, Zero(1)) THEN Zero(1)
                      ELSE FSub(@, increment)]
    /\ op' = [NoOp EXCEPT !.name = "decrease_temperature"]
    /\ UNCHANGED <<increment, delay>>
    /\ TuiFrame

\* 'd': increase_delay()
IncreaseDelay ==
    /\ ~panic
    /\ delay < 10 * (1 + MaxDelayKeys)
    /\ delay' = delay + 10
    /\ op' = [NoOp EXCEPT !.name = "increase_delay", !.x = delay]
    /\ UNCHANGED <<lattice, increment>>
    /\ TuiFrame

\* DecreaseDelay without the test for 0 ms.
DecreaseDelay_Unguarded ==
    /\ ~panic
    /\ op' = [NoOp EXCEPT !.name = "decrease_delay", !.x = delay]
    /\ IF delay < 10
       THEN /\ panic' = TRUE
            /\ UNCHANGED delay
       ELSE /\ panic' = FALSE
            /\ delay' = delay - 10
    /\ UNCHANGED <<lattice, increment, env, config, is_paused>>

\* 'D': decrease_delay(); a Duration subtraction that would go below zero
\* panics.  op.x is the delay before the call.
DecreaseDelay ==
    /\ ~panic
    /\ op' = [NoOp EXCEPT !.name = "decrease_delay", !.x = delay]
    /\ IF delay = 0
       THEN /\ panic' = FALSE
            /\ delay' = 0
       ELSE IF delay < 10
       THEN /\ panic' = TRUE
            /\ UNCHANGED delay
       ELSE /\ panic' = FALSE
            /\ delay' = delay - 10
    /\ UNCHANGED <<lattice, increment, env, config, is_paused>>

NextTui ==
    \/ IncreaseIncrement
    \/ DecreaseIncrement
    \/ IncreaseTemperature
    \/ DecreaseTemperature
    \/ IncreaseDelay
    \/ DecreaseDelay

SpecTui == InitTui /\ [][NextTui]_vars

(***************************************************************************)
(* The web server's Config                                                 *)
(***************************************************************************)
\* The values each environment variable is given
EnvValues(n) ==
    CASE n = "SVC_ENDPOINT" -> {Unset, "0.0.0.0"}
      [] n = "SVC_PORT"     -> {Unset, "3000"}
      [] n = "LOG_LEVEL"    -> {Unset, "ERROR", "WARN", "INFO", "DEBUG",
                                "TRACE", "debug"}
      [] n = "ENVIRONMENT"  -> {Unset, "release", "Release", "RELEASE",
                                "development", "Development", "DEVELOPMENT",
                                "prod"}

\* Lattice::default(), as derived: the web server owns no lattice
LatticeDefault ==
    [value |-> <<>>, size |-> 0, interactivity |-> Zero(1),
     temperature |-> Zero(1)]

\* Config::parse_environment()
ParseEnvironment ==
    IF env["ENVIRONMENT"] = Unset THEN "Release"
    ELSE IF env["ENVIRONMENT"] \in {"release", "Release", "RELEASE"}
    THEN "Release"
    ELSE IF env["ENVIRONMENT"] \in {"development", "Development", "DEVELOPMENT"}
    THEN "Development"
    ELSE "Release"

\* Config::parse_log_level()
ParseLogLevel ==
    IF env["LOG_LEVEL"] = Unset THEN "INFO"
    ELSE IF env["LOG_LEVEL"] \in {"ERROR", "WARN", "INFO", "DEBUG", "TRACE"}
    THEN env["LOG_LEVEL"]
    ELSE "INFO"

\* ConfigDefaultValue with each field taken from its environment variable
\* when that is set.
ConfigDefaultValue_FromEnvar ==
    [svc_endpoint |-> IF env["SVC_ENDPOINT"] = Unset THEN "localhost"
                      ELSE env["SVC_ENDPOINT"],
     svc_port     |-> IF env["SVC_PORT"] = Unset THEN "8080"
                      ELSE env["SVC_PORT"],
     log_level    |-> ParseLogLevel,
     environment  |-> ParseEnvironment]

\* The value of Config::default()
ConfigDefaultValue ==
    [svc_endpoint |-> "localhost", svc_port |-> "8080", log_level |-> "INFO",
     environment |-> "Release"]

\* A call of Config::default()
ConfigDefault ==
    /\ ~panic
    /\ config' = ConfigDefaultValue
    /\ op' = [NoOp EXCEPT !.name = "config_default"]
    /\ panic' = FALSE
    /\ UNCHANGED <<lattice, env, is_paused, increment, delay>>

\* A call of Config::from_envar(): the two expect()s panic on an unset
\* variable.
ConfigFromEnvar ==
    /\ ~panic
    /\ op' = [NoOp EXCEPT !.name = "config_from_envar"]
    /\ IF env["SVC_ENDPOINT"] = Unset \/ env["SVC_PORT"] = Unset
       THEN /\ panic' = TRUE
            /\ UNCHANGED config
       ELSE /\ panic' = FALSE
            /\ config' = [svc_endpoint |-> env["SVC_ENDPOINT"],
                          svc_port     |-> env["SVC_PORT"],
                          log_level    |-> ParseLogLevel,
                          environment  |-> ParseEnvironment]
    /\ UNCHANGED <<lattice, env, is_paused, increment, delay>>

InitConfig ==
    /\ lattice = LatticeDefault
    /\ op = [NoOp EXCEPT !.name = "main"]
    /\ panic = FALSE
    /\ env \in {e \in [EnvNames -> UNION {EnvValues(n) : n \in EnvNames}] :
                   \A n \in EnvNames : e[n] \in EnvValues(n)}
    /\ config = NoConfig
    /\ is_paused = TRUE
    /\ increment = Zero(1)
    /\ delay = 0

NextConfig ==
    \/ ConfigDefault
    \/ ConfigFromEnvar

SpecConfig == InitConfig /\ [][NextConfig]_vars

(***************************************************************************)
(* Properties                                                              *)
(***************************************************************************)
\* value has size rows of size entries each
Square(l) ==
    /\ Len(l.value) = l.size
    /\ \A i \in 1..Len(l.value) : Len(l.value[i]) = l.size

J100 == Fin(1, 100, 1, 0)

T100 == Fin(1, 100, 1, 0)

\* C1: in every reachable state, the state between set_size and
\* update_lattice included, the lattice is square: value.len() == size and
\* every row holds exactly size entries.
C1_AlwaysSquare == Square(lattice)

\* C2: in every reachable state every cell of the lattice is exactly -1 or
\* +1, the cells added by a growth included.
C2_CellsAreSpins ==
    \A i \in 1..Len(lattice.value) :
        \A j \in 1..Len(lattice.value[i]) : lattice.value[i][j] \in {-1, 1}

\* A growth of update_lattice has just added cells, and both spins occur.
C2_Witness ==
    /\ op.name = "update_lattice"
    /\ op.len < Len(lattice.value)
    /\ \E i \in 1..Len(lattice.value) : \E j \in 1..Len(lattice.value[i]) :
          i > op.len /\ lattice.value[i][j] = -1
    /\ \E i \in 1..Len(lattice.value) : \E j \in 1..Len(lattice.value[i]) :
          j > op.len /\ lattice.value[i][j] = 1

\* C3: from a square lattice, one metropolis_algo_calculation(x, y) call
\* changes at most one cell, the one at column x of row y, by a sign flip;
\* every other cell, the shape and the parameters are as before the call.
C3_StepLocality ==
    [][(op'.name = "metropolis" /\ Square(lattice)) =>
         LET x == op'.x
             y == op'.y
             v == lattice.value
             w == lattice'.value
         IN /\ lattice'.size = lattice.size
            /\ lattice'.interactivity = lattice.interactivity
            /\ lattice'.temperature = lattice.temperature
            /\ Len(w) = Len(v)
            /\ \A i \in 1..Len(v) :
                  /\ Len(w[i]) = Len(v[i])
                  /\ \A j \in 1..Len(v[i]) :
                        IF i = y + 1 /\ j = x + 1
                        THEN /\ w[i][j] \in {v[i][j], -v[i][j]}
                             /\ (w[i][j] = -v[i][j]) <=> op'.is_flipped
                        ELSE w[i][j] = v[i][j]]_vars

\* A step on a square 3 x 3 lattice has flipped a cell off the diagonal.
C3_Witness ==
    /\ op.name = "metropolis"
    /\ op.is_flipped
    /\ op.x # op.y
    /\ Square(lattice)
    /\ lattice.size = 3

\* delta_h and p as C4 states them
C4_DeltaH(h) == FMul(FromInt(-2), h)

C4_P(delta_h, t) == EPowf(FDiv(FNeg(delta_h), FMul(KB, t)))

C5_EnergyNegation ==
    (Square(lattice) /\ ~panic) =>
        \A pt \in PickRandomPoint(lattice) :
            \A h \in {CalculateHamiltonian(lattice, pt[1], pt[2])} :
            \A g \in {CalculateHamiltonian(
                         [lattice EXCEPT !.value = Flip(lattice.value, pt[1], pt[2])],
                         pt[1], pt[2])} :
                FEq(g, FNeg(h))

\* The neighbour of (x, y) in direction (dx, dy) as C6 states it: the adjacent
\* cell's spin, or the cell's own spin when that place is outside the lattice.
C6_Neighbour(l, x, y, dx, dy) ==
    IF x + dx \in 0..(l.size - 1) /\ y + dy \in 0..(l.size - 1)
    THEN Cell(l, x + dx, y + dy)
    ELSE Cell(l, x, y)

C6_Hamiltonian(l, x, y) ==
    LET sum == C6_Neighbour(l, x, y, -1, 0) + C6_Neighbour(l, x, y, 1, 0)
               + C6_Neighbour(l, x, y, 0, -1) + C6_Neighbour(l, x, y, 0, 1)
    IN FNeg(FMul(l.interactivity, FromInt(Cell(l, x, y) * sum)))

\* C6: calculate_hamiltonian(x, y) is -interactivity * spin(x, y) * (left +
\* right + down + up), a neighbour outside the lattice being replaced by the
\* cell's own spin (no wraparound); on a 1 x 1 lattice the result is
\* -interactivity * spin * (4 * spin) for either spin.
C6_OpenBoundary ==
    ~panic =>
        \A pt \in PickRandomPoint(lattice) :
            ~IndexPanics(lattice, pt[1], pt[2]) =>
                \A h \in {CalculateHamiltonian(lattice, pt[1], pt[2])} :
                    /\ FEq(h, C6_Hamiltonian(lattice, pt[1], pt[2]))
                    /\ (lattice.size = 1 /\ Len(lattice.value) = 1) =>
                          FEq(h, FMul(FMul(FNeg(lattice.interactivity),
                                           FromInt(lattice.value[1][1])),
                                      FromInt(4 * lattice.value[1][1])))

\* A step has measured the corner (0, 0) of a square 3 x 3 lattice whose
\* right and upper neighbours both differ from the corner's own spin: the two
\* missing neighbours count as the own spin and the energy is zero.
C6_Witness ==
    /\ op.name = "metropolis"
    /\ ~panic
    /\ Square(lattice)
    /\ lattice.size = 3
    /\ op.x = 0 /\ op.y = 0
    /\ ~op.is_flipped
    /\ lattice.value[1][2] = -lattice.value[1][1]
    /\ lattice.value[2][1] = -lattice.value[1][1]
    /\ IsZero(op.h)

\* C7: with temperature = 0, metropolis_algo_calculation flips the chosen
\* cell whenever delta_h < 0, does not flip it whenever delta_h >= 0
\* (delta_h = 0, where the score is NaN, included), and never panics.
C7_ZeroTemperature ==
    (op.name = "metropolis" /\ ~panic /\ IsZero(lattice.temperature)) =>
        (op.is_flipped <=> FLtZero(op.delta_h))

\* With temperature = +0.0 the rule of C7 holds; the drivers reach no other zero.
C7_PositiveZero ==
    (op.name = "metropolis" /\ ~panic /\ lattice.temperature = Zero(1)) =>
        (op.is_flipped <=> FLtZero(op.delta_h))

\* C8: with interactivity = 100.0 and temperature = 100.0 on a 3 x 3 lattice
\* whose centre cell and its four neighbours are all +1,
\* calculate_hamiltonian at the centre is -400, delta_h is 800 and
\* metropolis_algo_calculation at the centre does not flip the cell.
C8_Fixture ==
    [][(/\ op'.name = "metropolis"
        /\ op'.x = 1 /\ op'.y = 1
        /\ Square(lattice) /\ lattice.size = 3
        /\ lattice.interactivity = J100
        /\ lattice.temperature = T100
        /\ lattice.value[2][2] = 1
        /\ lattice.value[2][1] = 1 /\ lattice.value[2][3] = 1
        /\ lattice.value[1][2] = 1 /\ lattice.value[3][2] = 1)
       => /\ ~panic'
          /\ op'.h = FromInt(-400)
          /\ op'.delta_h = FromInt(800)
          /\ ~op'.is_flipped
          /\ lattice' = lattice]_vars

\* The step of C8 has been taken: the centre of the fixture was measured at
\* -400 and was not flipped.
C8_Witness ==
    /\ op.name = "metropolis"
    /\ op.x = 1 /\ op.y = 1
    /\ ~op.is_flipped
    /\ op.h = FromInt(-400)
    /\ op.delta_h = FromInt(800)
    /\ op.p = "le_half"
    /\ Square(lattice) /\ lattice.size = 3
    /\ lattice.interactivity = J100
    /\ lattice.temperature = T100
    /\ lattice.value[2][2] = 1
    /\ lattice.value[2][1] = 1 /\ lattice.value[2][3] = 1
    /\ lattice.value[1][2] = 1 /\ lattice.value[3][2] = 1

\* C9: after update_lattice returns, whatever target the size field was set
\* to (a growth, a shrink, a growth followed by a shrink back), value.len()
\* equals the target size and every row has exactly that many entries.
C9_UpdateSquare ==
    (op.name = "update_lattice" /\ ~panic) => Square(lattice)

\* update_lattice has shrunk a 3 x 3 lattice to the target 1.
C9_Witness ==
    /\ op.name = "update_lattice"
    /\ ~panic
    /\ op.len = 3
    /\ lattice.size = 1
    /\ Len(lattice.value) = 1

\* C10: when update_lattice grows a lattice from N to M > N, every cell
\* (r, c) with r < N and c < N keeps its value; each existing row only gains
\* M - N appended cells and M - N rows of length M are appended.
C10_GrowthKeeps ==
    [][(op'.name = "update_lattice" /\ ~panic'
        /\ lattice.size > Len(lattice.value)) =>
         LET N == Len(lattice.value)
             M == lattice.size
             v == lattice.value
             w == lattice'.value
         IN /\ lattice'.size = M
            /\ Len(w) = N + (M - N)
            /\ \A r \in 1..N :
                  /\ Len(w[r]) = Len(v[r]) + (M - N)
                  /\ SubSeq(w[r], 1, Len(v[r])) = v[r]
            /\ \A r \in (N + 1)..M : Len(w[r]) = M]_vars

\* update_lattice has grown a 2 x 2 lattice to 3 x 3.
C10_Witness ==
    /\ op.name = "update_lattice"
    /\ ~panic
    /\ op.len = 2
    /\ lattice.size = 3
    /\ Len(lattice.value) = 3

\* C11 as stated: when a lattice is grown from N to M > N and then shrunk back
\* to N, the original N x N block is re-randomized by the growth rather than
\* preserved, so that it may differ after the round trip.  Here: in a state
\* where set_size has raised size to M above the N >= 1 rows, some outcome of
\* the growth, shrunk back to N, differs from the rows before the round trip.
C11_RoundTripRerandomized ==
    (op.name = "set_size" /\ ~panic /\ Len(lattice.value) >= 1
     /\ lattice.size > Len(lattice.value)) =>
        \E w \in Grown(lattice.value, lattice.size) :
            Shrunk(w, Len(lattice.value)) # lattice.value

\* C11, amended: when update_lattice has grown a lattice from N to M > N,
\* shrinking it back to N does not panic and gives N rows of N entries that
\* are exactly the rows before the growth: the round trip preserves the
\* original N x N block.
C11_RoundTripRestores ==
    [][(op'.name = "update_lattice" /\ ~panic'
        /\ lattice.size > Len(lattice.value)) =>
         LET N == Len(lattice.value)
             w == lattice'.value
         IN /\ Len(w) > N
            /\ ~ShrinkPanics(w, N)
            /\ \A back \in {Shrunk(w, N)} :
                  /\ Len(back) = N
                  /\ \A r \in 1..N : Len(back[r]) = N
                  /\ back = lattice.value]_vars

\* update_lattice has grown a 1 x 1 lattice holding +1 to 3 x 3, and every
\* cell the growth added is -1.
C11_Witness ==
    /\ op.name = "update_lattice"
    /\ ~panic
    /\ op.len = 1
    /\ Len(lattice.value) = 3
    /\ lattice.value[1] = <<1, -1, -1>>
    /\ lattice.value[2] = <<-1, -1, -1>>
    /\ lattice.value[3] = <<-1, -1, -1>>

\* C12: when update_lattice shrinks a lattice from N to M < N, the result is
\* exactly the top-left M x M block of the old lattice: only the last N - M
\* entries of each row and the last N - M rows are removed, and no surviving
\* cell changes value.
C12_ShrinkTopLeft ==
    [][(op'.name = "update_lattice" /\ ~panic'
        /\ lattice.size < Len(lattice.value)) =>
         LET M == lattice.size
             v == lattice.value
             w == lattice'.value
         IN /\ lattice'.size = M
            /\ lattice'.interactivity = lattice.interactivity
            /\ lattice'.temperature = lattice.temperature
            /\ Len(w) = M
            /\ \A r \in 1..M :
                  /\ Len(w[r]) = M
                  /\ \A c \in 1..M : w[r][c] = v[r][c]]_vars

\* update_lattice has shrunk a 3 x 3 lattice to a 2 x 2 block in which both
\* spins occur.
C12_Witness ==
    /\ op.name = "update_lattice"
    /\ ~panic
    /\ op.len = 3
    /\ lattice.size = 2
    /\ Len(lattice.value) = 2
    /\ lattice.value[1] = <<1, -1>>
    /\ lattice.value[2] = <<-1, -1>>

\* C13: update_lattice called when the size field already equals the number
\* of rows is a no-op: cells, size, interactivity and temperature are all
\* unchanged and nothing panics; so a call of update_lattice right after
\* another call of it changes nothing.
C13_UpdateNoOp ==
    [][(op'.name = "update_lattice"
        /\ (lattice.size = Len(lattice.value)
            \/ (op.name = "update_lattice" /\ ~panic))) =>
         /\ lattice' = lattice
         /\ ~panic']_vars

\* update_lattice has been called on a 3 x 3 lattice whose size field is 3.
C13_Witness ==
    /\ op.name = "update_lattice"
    /\ ~panic
    /\ op.len = lattice.size
    /\ lattice.size = 3
    /\ Len(lattice.value) = 3

\* C14: set_size(candidate) applies the new target size only when
\* candidate > 0 (the size field becomes candidate, nothing else changes);
\* with candidate = 0 the lattice, its size and cells included, is left
\* entirely unchanged, and no error is raised.
C14_SetSizeGuard ==
    [][(op'.name = "set_size") =>
         LET candidate == op'.x
         IN /\ ~panic'
            /\ lattice'.value = lattice.value
            /\ lattice'.interactivity = lattice.interactivity
            /\ lattice'.temperature = lattice.temperature
            /\ candidate > 0 => lattice'.size = candidate
            /\ candidate = 0 => lattice' = lattice]_vars

\* set_size(0) has been called on a 3 x 3 lattice, which still has size 3.
C14_Witness ==
    /\ op.name = "set_size"
    /\ op.x = 0
    /\ ~panic
    /\ lattice.size = 3
    /\ Len(lattice.value) = 3

\* C15: reset_value returns a lattice with the same size, interactivity and
\* temperature as the receiver and a fresh size x size grid of -1/+1 cells,
\* and it does not modify the receiver.
C15_ResetValue ==
    [][(op'.name = "reset_value") =>
         LET ret == op'.ret
         IN /\ ~panic'
            /\ lattice' = lattice
            /\ ret.size = lattice.size
            /\ ret.interactivity = lattice.interactivity
            /\ ret.temperature = lattice.temperature
            /\ Len(ret.value) = lattice.size
            /\ \A i \in 1..Len(ret.value) :
                  /\ Len(ret.value[i]) = lattice.size
                  /\ \A j \in 1..Len(ret.value[i]) :
                        ret.value[i][j] \in {-1, 1}]_vars

\* reset_value has been called on a lattice of one row whose size field is 2
\* and whose interactivity and temperature differ: it returned a 2 x 2 grid
\* holding both spins, and the receiver still has its one row.
C15_Witness ==
    /\ op.name = "reset_value"
    /\ ~panic
    /\ lattice.size = 2
    /\ Len(lattice.value) = 1
    /\ lattice.interactivity # lattice.temperature
    /\ op.ret.value = <<<<1, -1>>, <<-1, -1>>>>

\* The energy of the cell at row row and column col of a square lattice, the
\* cell's own spin standing in for a neighbour outside the lattice.
C16_Energy(l, row, col) ==
    LET v     == l.value
        spin  == v[row + 1][col + 1]
        left  == IF col # 0 THEN v[row + 1][col] ELSE spin
        right == IF col # l.size - 1 THEN v[row + 1][col + 2] ELSE spin
        down  == IF row # 0 THEN v[row][col + 1] ELSE spin
        up    == IF row # l.size - 1 THEN v[row + 2][col + 1] ELSE spin
    IN FMul(FMul(FNeg(l.interactivity), FromInt(spin)),
            FromInt(left + right + down + up))

\* The step has measured the cell at (row, col) and flipped no other cell.
C16_ActsOn(row, col) ==
    /\ FEq(op'.h, C16_Energy(lattice, row, col))
    /\ op'.is_flipped =>
          lattice'.value = [lattice.value EXCEPT ![row + 1][col + 1] = -@]
    /\ ~op'.is_flipped => lattice'.value = lattice.value

\* C16 as stated: the step's Pick phase consumes two draws in a fixed order
\* (op.x is the first draw, op.y the second), and the first draw is used as the
\* row index and the second as the column index of the cell that is measured
\* and possibly flipped.
C16_RowFirst ==
    [][(op'.name = "metropolis" /\ ~panic' /\ Square(lattice)) =>
         C16_ActsOn(op'.x, op'.y)]_vars

\* C16, amended: the first draw is used as the column index and the second
\* draw as the row index of the cell that is measured and possibly flipped.
C16_ColumnFirst ==
    [][(op'.name = "metropolis" /\ ~panic' /\ Square(lattice)) =>
         C16_ActsOn(op'.y, op'.x)]_vars

\* A step whose first draw was 2 and whose second draw was 0 has flipped the
\* last cell of the first row of a 3 x 3 lattice to -1; the first cell of the
\* last row is +1.
C16_Witness ==
    /\ op.name = "metropolis"
    /\ ~panic
    /\ op.is_flipped
    /\ op.x = 2 /\ op.y = 0
    /\ Square(lattice)
    /\ lattice.size = 3
    /\ lattice.value[1][3] = -1
    /\ lattice.value[3][1] = 1

\* C17: on an empty lattice (size 0, as Lattice::new(0, ..) produces it) a
\* step, pick_random_point followed by metropolis_algo_calculation, panics
\* instead of returning a coordinate or clamping an index, and the lattice is
\* not modified.
C17_EmptyPanics ==
    [][(lattice.size = 0 /\ op'.name \in {"pick_random_point", "metropolis"}) =>
         /\ panic'
         /\ lattice' = lattice]_vars

\* A step on the empty lattice has panicked in pick_random_point.
C17_Witness ==
    /\ op.name = "pick_random_point"
    /\ panic
    /\ lattice.size = 0
    /\ lattice.value = <<>>

\* C18: Config::default() always yields svc_endpoint "localhost", svc_port
\* "8080", log_level INFO and environment Release, independent of any
\* environment variable.
C18_ConfigDefault ==
    (op.name = "config_default") =>
        /\ ~panic
        /\ config.svc_endpoint = "localhost"
        /\ config.svc_port = "8080"
        /\ config.log_level = "INFO"
        /\ config.environment = "Release"

\* Config::default() has been called in a process whose four environment
\* variables are all set to other values than the defaults.
C18_Witness ==
    /\ op.name = "config_default"
    /\ env["SVC_ENDPOINT"] = "0.0.0.0"
    /\ env["SVC_PORT"] = "3000"
    /\ env["LOG_LEVEL"] = "DEBUG"
    /\ env["ENVIRONMENT"] = "development"
    /\ config = ConfigDefaultValue

\* C19: in every reachable state in which a step has been performed, the
\* coordinate pick_random_point returned indexes an existing cell (y is below
\* the number of rows and x below the length of row y), so that
\* metropolis_algo_calculation has not indexed out of bounds; also when
\* set_size has raised size and update_lattice has not yet been called.
C19_PickInBounds ==
    (op.name = "metropolis") =>
        /\ InBounds(lattice, op.x, op.y)
        /\ ~panic

\* C20: in the GUI an update frame invokes the Metropolis step only when
\* is_paused is false; across frames during which is_paused stays true the
\* lattice cells change only through the Reset button or a lattice-size
\* change; and the app starts paused.
C20_PausedGui ==
    /\ is_paused = TRUE
    /\ [][(op'.name = "update") =>
            /\ op'.stepped => ~is_paused'
            /\ (is_paused /\ is_paused' /\ lattice'.value # lattice.value) =>
                  op'.input \in {"reset", "size"}
            /\ (is_paused' /\ op'.input \notin {"reset", "size"}) =>
                  lattice'.value = lattice.value]_vars

\* A frame without any input has left the paused app's 3 x 3 lattice, grown
\* from the default in an earlier frame, as it was.
C20_Witness ==
    /\ op.name = "update"
    /\ op.input = "none"
    /\ ~op.stepped
    /\ is_paused
    /\ ~panic
    /\ lattice.size = 3
    /\ Len(lattice.value) = 3

\* C21: in every GUI front end, for any sequence of Lattice Size edits, Reset
\* clicks and Pause/Resume clicks starting from the default app state, the
\* Metropolis step is never invoked on a lattice whose size is 0.
C21_NeverStepsEmpty ==
    (op.name = "update" /\ op.stepped) => lattice.size # 0

\* (x, y) is a corner of a lattice of side size (the single cell when size = 1)
C22_Corner(l, x, y) ==
    /\ x \in {0, l.size - 1}
    /\ y \in {0, l.size - 1}

C23_TemperatureNonNegative == ~FLtZero(lattice.temperature)

\* C24: in the TUI, for any sequence of 'd' and 'D' key presses starting from
\* the initial 10 ms delay, the tick delay is always a non-negative multiple
\* of 10 ms: decrease_delay at 0 ms leaves it at 0 ms, and the Duration
\* subtraction never underflows.
C24_DelayMultipleOfTen ==
    /\ [](delay >= 0 /\ delay % 10 = 0 /\ ~panic)
    /\ [][(op'.name = "decrease_delay" /\ delay = 0) =>
             (delay' = 0 /\ ~panic')]_vars

\* 'D' has been pressed while the delay was 0 ms, and the delay is 0 ms.
C24_Witness ==
    /\ op.name = "decrease_delay"
    /\ op.x = 0
    /\ delay = 0
    /\ ~panic

====
